---- MODULE Spec2Model ----
(***************************************************************************)
(* Model of rsc-state's createServerStore (async-first version):           *)
(* scope resolution (request / persistent with adapter seed), the derived  *)
(* state cache, the middleware pipeline, the storage adapter bridge and    *)
(* batch.  Every `await` of the source is a suspension point: a call is a  *)
(* small process whose pc names the await it is parked on.                 *)
(***************************************************************************)
EXTENDS Integers, Sequences, FiniteSets, TLC

\* ------------------------------------------------------------------ bounds
MaxCalls == 2       \* mutating calls issued over the life of the store
MaxRequests == 2    \* logical requests
MaxSteps == 2       \* steps performed by one batch callback
MaxCount == 2       \* user functions keep `count` in 0..MaxCount

Calls == 1..MaxCalls
Requests == 1..MaxRequests

\* ------------------------------------------------------- values and objects
\* A state object is an immutable JS object: a reference and its content.
\* References are named after their creator, so `===` is equality of refs.
Obj(ref, val) == [ref |-> ref, val |-> val]
NullVal == [count |-> 0 - 1, tag |-> 0 - 1]
NullObj == Obj(<<0, 0, 0>>, NullVal)
NullDerived == [doubled |-> 0 - 1]

InitialVal == [count |-> 0, tag |-> 0]
InitialObj == Obj(<<0, 0, 1>>, InitialVal)
StoredObj == Obj(<<0, 0, 2>>, [count |-> 2, tag |-> 0])
ArgVal == [count |-> 1, tag |-> 0]

\* refs: <<creator call (0 = store), phase, index>>
SeedRef == <<0, 1, 0>>
SyncRef == <<0, 1, 1>>
RequestRef(r) == <<0, 2, r>>
CandidateRef(c) == <<c, 0, 0>>
StageRef(c, i) == <<c, 1, i>>
StepRef(c, j) == <<c, 2, j>>

\* user functions handed to the store
Inc(val) == [val EXCEPT !.count = (@ + 1) % (MaxCount + 1)]
Double(val) == [val EXCEPT !.count = (@ * 2) % (MaxCount + 1)]
Partials == {[has |-> {}, val |-> InitialVal], [has |-> {"tag"}, val |-> [count |-> 0, tag |-> 1]]}
BatchSteps == {"update", "set", "patch", "throw"}
Scripts == UNION {[1..n -> BatchSteps] : n \in 0..MaxSteps}
Kinds == {"initialize", "update", "set", "patch", "reset", "batch"}

\* the argument slot of a call that is not a patch
NoPartial == [has |-> {}, val |-> NullVal]

\* an assignment of the partial in place of the merge
SpreadReplacing(val, partial) ==
    [k \in DOMAIN val |-> partial.val[k]]

\* { ...previousState, ...partialState }
Spread(val, partial) ==
    [k \in DOMAIN val |-> IF k \in partial.has THEN partial.val[k] ELSE val[k]]

\* configuration.derive: "pure" never throws, "partial" throws on tag = 1
Derive(val) == [doubled |-> val.count * 2]
DeriveThrows(cfg, val) == cfg.derive = "partial" /\ val.tag = 1

\* the store configurations explored: every storage mode, adapter content,
\* middleware shape, derive behaviour and kind of initial value occurs;
\* `initial` is a plain value, a factory, or a factory whose call may throw;
\* `faulty` says whether the adapter and the lifecycle callbacks may fail
Config(storage, adapter, middleware, derive, initial, faulty) ==
    [storage |-> storage, adapter |-> adapter, middleware |-> middleware,
     derive |-> derive, initial |-> initial, faulty |-> faulty]
Configs ==
    {Config("persistent", "empty", <<>>, "pure", "throwing", TRUE),
     Config("persistent", "stored", <<"guard", "addOne">>, "none", "factory", TRUE),
     Config("persistent", "none", <<"addOne", "double">>, "partial", "value", FALSE),
     Config("request", "stored", <<"keep">>, "pure", "throwing", FALSE),
     Config("request", "none", <<>>, "partial", "value", TRUE)}

VARIABLES
    configuration,                  \* StoreConfig, fixed at creation
    persistentInstance,             \* id of the record, 0 = null
    persistentInstanceInitializing, \* "null" | "pending" | "resolved" | "rejected" | "threw"
    seedInstance,                   \* record the seed promise resolved with
    requestInstances,               \* React cache(): request -> record id
    instances,                      \* heap of CacheInstance records
    calls,                          \* the mutating calls and their locals
    adapterStore,                   \* what the adapter holds: the last write, or the stored value
    adapterReadCalls,               \* invocations of adapter.read
    otherInstance,                  \* persistentInstance of a second store: id, 0 = null
    observed                        \* a sequential caller: its program, operations
                                    \* awaited, derived states it saw recalculated

vars == <<configuration, persistentInstance, persistentInstanceInitializing,
          seedInstance, requestInstances, instances, calls, adapterStore,
          adapterReadCalls, otherInstance, observed>>

IdleCall ==
    [kind |-> "none", req |-> 0, pc |-> "idle", waits |-> FALSE, inst |-> 0,
     previousState |-> NullObj, candidate |-> NullObj, nextState |-> NullObj,
     mwIdx |-> 0, mwLog |-> <<>>, steps |-> 0, wrote |-> <<>>, fired |-> <<>>,
     err |-> "none", alone |-> FALSE, partialState |-> NoPartial]

\* no sequential caller is being followed
NoProgram == [mode |-> "none", ops |-> 0, derives |-> 0]

\* the README's three steps: update, update, set
Program == <<"update", "update", "set">>

\* the callbacks passed to batch(): any script, or the README's three steps
CallbackScripts == IF observed.mode = "batch" THEN {Program} ELSE Scripts

\* what the adapter holds when the store is created
AdapterContentAtStart ==
    IF configuration.adapter = "stored" THEN StoredObj ELSE NullObj

Init ==
    /\ configuration \in Configs
    /\ persistentInstance = 0
    /\ persistentInstanceInitializing = "null"
    /\ seedInstance = 0
    /\ requestInstances = [r \in Requests |-> 0]
    /\ instances = <<>>
    /\ calls = [c \in Calls |-> IdleCall]
    /\ adapterStore = AdapterContentAtStart
    /\ adapterReadCalls = 0
    /\ otherInstance = 0
    /\ observed = NoProgram

\* ------------------------------------------------------------ scope resolver
\* getInitialState(): the configured value itself, or a fresh factory result
GetInitialState(ref) ==
    IF configuration.initial = "value" THEN InitialObj ELSE Obj(ref, InitialVal)

\* configuration.initial is a function whose call may throw
FactoryMayThrow == configuration.initial = "throwing"

FactoryOutcomes == IF FactoryMayThrow THEN {FALSE, TRUE} ELSE {FALSE}

NewInstance(state, initialized) ==
    [state |-> state, initialized |-> initialized,
     lastDerivedBaseState |-> NullObj, cachedDerivedState |-> NullDerived]

\* a record literal that is stored although evaluating its state threw
CreateRecordEager(heap, ref, threw) ==
    [heap |-> Append(heap, NewInstance(IF threw THEN NullObj ELSE GetInitialState(ref), FALSE)),
     id |-> Len(heap) + 1, threw |-> threw]

\* the record literal { state: getInitialState(), initialized: false, ... }:
\* when getInitialState() throws no object is built and nothing is assigned
CreateRecord(heap, ref, threw) ==
    IF threw THEN [heap |-> heap, id |-> 0, threw |-> TRUE]
    ELSE [heap |-> Append(heap, NewInstance(GetInitialState(ref), FALSE)),
          id |-> Len(heap) + 1, threw |-> FALSE]

\* getPersistentInstance() without the check of the in-flight seed
PathWithoutCoalescing ==
    IF persistentInstance # 0 THEN "have" ELSE "seed"

\* the three ways out of getPersistentInstance()
GetPersistentInstancePath ==
    IF persistentInstance # 0 THEN "have"
    ELSE IF persistentInstanceInitializing # "null" THEN "wait"
    ELSE "seed"

\* a test of the adapter that forgets the storage mode
UsesAdapterAnyMode == configuration.adapter # "none"

UsesAdapter == configuration.storage = "persistent" /\ configuration.adapter # "none"

\* the caller has awaited every operation it issued before (the sequential
\* use the methods' examples show): no call is parked on an await
NothingInFlight == \A d \in Calls : calls[d].pc \in {"idle", "done", "failed"}

\* A mutating method is called: the synchronous part of getCacheInstanceAsync();
\* the call remembers whether it was issued with nothing else in flight
Start(c, k, r) ==
    /\ calls[c].pc = "idle"
    /\ IF c = 1 THEN TRUE ELSE calls[c - 1].pc # "idle"
    /\ IF r = 1 THEN TRUE ELSE requestInstances[r - 1] # 0
    /\ LET call == [IdleCall EXCEPT !.kind = k, !.req = r, !.pc = "resolve",
                                    !.alone = NothingInFlight] IN
       IF configuration.storage = "request" THEN
           /\ IF requestInstances[r] # 0 THEN
                  /\ calls' = [calls EXCEPT ![c] = [call EXCEPT !.inst = requestInstances[r]]]
                  /\ UNCHANGED <<requestInstances, instances>>
              ELSE
                  \* cache() runs the factory; a throw rejects the operation
                  \E threw \in FactoryOutcomes :
                      LET got == CreateRecord(instances, RequestRef(r), threw) IN
                      /\ instances' = got.heap
                      /\ requestInstances' = [requestInstances EXCEPT ![r] = got.id]
                      /\ calls' = [calls EXCEPT ![c] =
                             IF got.threw
                             THEN [call EXCEPT !.pc = "failed", !.err = "factory"]
                             ELSE [call EXCEPT !.inst = got.id]]
           /\ UNCHANGED <<persistentInstance, persistentInstanceInitializing,
                          seedInstance, adapterReadCalls>>
       ELSE
           /\ UNCHANGED requestInstances
           /\ CASE GetPersistentInstancePath = "have" ->
                   /\ calls' = [calls EXCEPT ![c] = [call EXCEPT !.inst = persistentInstance]]
                   /\ UNCHANGED <<persistentInstance, persistentInstanceInitializing,
                                  seedInstance, instances, adapterReadCalls>>
                [] GetPersistentInstancePath = "wait" ->
                   /\ calls' = [calls EXCEPT ![c] = [call EXCEPT !.waits = TRUE]]
                   /\ UNCHANGED <<persistentInstance, persistentInstanceInitializing,
                                  seedInstance, instances, adapterReadCalls>>
                [] OTHER ->
                   /\ calls' = [calls EXCEPT ![c] = [call EXCEPT !.waits = TRUE]]
                   /\ IF configuration.adapter # "none" THEN
                          \* adapter.read() is invoked, the seed parks on it
                          /\ adapterReadCalls' = adapterReadCalls + 1
                          /\ persistentInstanceInitializing' = "pending"
                          /\ UNCHANGED <<persistentInstance, seedInstance, instances>>
                      ELSE
                          \* no await inside the seed: the record exists at
                          \* once, or the seed is a rejected promise at once
                          \E threw \in FactoryOutcomes :
                              LET got == CreateRecord(instances, SeedRef, threw) IN
                              /\ instances' = got.heap
                              /\ persistentInstance' =
                                     IF got.id # 0 THEN got.id ELSE persistentInstance
                              /\ seedInstance' = got.id
                              /\ persistentInstanceInitializing' =
                                     IF got.threw THEN "threw" ELSE "resolved"
                              /\ UNCHANGED adapterReadCalls
    /\ UNCHANGED <<configuration, otherInstance, observed, adapterStore>>

\* a seed that ignores what adapter.read() returned
SeedRecordIgnoringAdapter(adapterState) ==
    NewInstance(GetInitialState(SeedRef), FALSE)

\* the record literal of the seed: state: adapterState ?? getInitialState(),
\* initialized: adapterState !== null
SeedRecord(adapterState) ==
    NewInstance(IF adapterState # NullObj THEN adapterState ELSE GetInitialState(SeedRef),
                adapterState # NullObj)

\* what the pending adapter.read() may resolve with: the content the adapter
\* had when it was invoked (nothing is written before the seed starts) or the
\* content a write invoked in the meantime has left
AdapterReadResults == {AdapterContentAtStart, adapterStore}

\* adapter.read() settles and the seed finishes (lines 775-785)
SeedComplete ==
    /\ persistentInstanceInitializing = "pending"
    /\ \/ \E adapterState \in AdapterReadResults :
              /\ instances' = Append(instances, SeedRecord(adapterState))
              /\ persistentInstance' = Len(instances) + 1
              /\ seedInstance' = Len(instances) + 1
              /\ persistentInstanceInitializing' = "resolved"
       \/ /\ configuration.faulty
          /\ persistentInstanceInitializing' = "rejected"
          /\ UNCHANGED <<persistentInstance, seedInstance, instances>>
       \/ \* adapter.read() gave nothing and getInitialState() throws
          /\ NullObj \in AdapterReadResults
          /\ FactoryMayThrow
          /\ LET got == CreateRecord(instances, SeedRef, TRUE) IN
             /\ instances' = got.heap
             /\ persistentInstance' = IF got.id # 0 THEN got.id ELSE persistentInstance
             /\ seedInstance' = got.id
          /\ persistentInstanceInitializing' = "threw"
    /\ UNCHANGED <<configuration, otherInstance, observed, requestInstances, calls, adapterStore,
                   adapterReadCalls>>

\* ------------------------------------------------------- middleware pipeline
StageThrows(stage, op) == stage = "guard" /\ op.nextState.val.count = 2

StageOut(stage, op, ref) ==
    CASE stage = "addOne" -> Obj(ref, Inc(op.nextState.val))
      [] stage = "double" -> Obj(ref, Double(op.nextState.val))
      [] OTHER -> op.nextState

\* a descriptor whose previousState is read from the record at each stage
DescriptorReadingRecord(call, input) ==
    [type |-> call.kind, previousState |-> instances[call.inst].state, nextState |-> input]

\* the descriptor stage i of call c is handed when its input is `input`
Descriptor(call, input) ==
    [type |-> call.kind, previousState |-> call.previousState, nextState |-> input]

\* a loop that catches the stage's exception and goes on with its input
InvokeStageSwallowing(call, c, i, input) ==
    LET stage == configuration.middleware[i]
        op == Descriptor(call, input)
    IN [call EXCEPT !.pc = "mw", !.mwIdx = i,
                    !.mwLog = Append(@, [op |-> op,
                                         out |-> IF StageThrows(stage, op) THEN input
                                                 ELSE StageOut(stage, op, StageRef(c, i))])]

\* a loop that hands every stage the candidate instead of the prior output
InvokeStageUnchained(call, c, i, input) ==
    LET stage == configuration.middleware[i]
        op == Descriptor(call, call.candidate)
    IN IF StageThrows(stage, op)
       THEN [call EXCEPT !.pc = "failed", !.err = "middleware", !.mwIdx = i,
                         !.mwLog = Append(@, [op |-> op, out |-> NullObj])]
       ELSE [call EXCEPT !.pc = "mw", !.mwIdx = i,
                         !.mwLog = Append(@, [op |-> op, out |-> StageOut(stage, op, StageRef(c, i))])]

\* one turn of the for loop of applyMiddleware: stage i is invoked
InvokeStage(call, c, i, input) ==
    LET stage == configuration.middleware[i]
        op == Descriptor(call, input)
    IN IF StageThrows(stage, op)
       THEN [call EXCEPT !.pc = "failed", !.err = "middleware", !.mwIdx = i,
                         !.mwLog = Append(@, [op |-> op, out |-> NullObj])]
       ELSE [call EXCEPT !.pc = "mw", !.mwIdx = i,
                         !.mwLog = Append(@, [op |-> op, out |-> StageOut(stage, op, StageRef(c, i))])]

\* applyMiddleware(operationType, previousState, nextState) up to its first await
ApplyMiddleware(call, c, nextState) ==
    IF Len(configuration.middleware) = 0
    THEN [call EXCEPT !.pc = "commit", !.nextState = nextState]
    ELSE InvokeStage([call EXCEPT !.nextState = nextState], c, 1, nextState)

\* a batch pass handed the state from before the callback as its nextState
ApplyBatchMiddlewareToInitial(call, c, accumulated) ==
    ApplyMiddleware(call, c, call.previousState)

\* applyMiddleware("batch", initialState, cacheInstance.state) of batch
ApplyBatchMiddleware(call, c, accumulated) ==
    ApplyMiddleware(call, c, accumulated)

\* --------------------------------------------------------------- candidates
\* a reset that takes the adapter's stored value when there is one
CandidatesResetFromAdapter(c, k, prev) ==
    CASE k \in {"initialize", "set"} ->
           {[threw |-> FALSE, state |-> Obj(CandidateRef(c), ArgVal), partial |-> NoPartial]}
      [] k = "update" ->
           {[threw |-> FALSE, state |-> Obj(CandidateRef(c), Inc(prev.val)), partial |-> NoPartial],
            [threw |-> TRUE, state |-> prev, partial |-> NoPartial]}
      [] k = "patch" ->
           {[threw |-> FALSE, state |-> Obj(CandidateRef(c), Spread(prev.val, p)), partial |-> p] :
               p \in Partials}
      [] k = "reset" ->
           {[threw |-> FALSE,
             state |-> IF adapterStore # NullObj THEN adapterStore
                       ELSE GetInitialState(CandidateRef(c)),
             partial |-> NoPartial]}
      [] OTHER -> {}

\* outcome of the synchronous code between the record and the pipeline
Candidates(c, k, prev) ==
    CASE k \in {"initialize", "set"} ->
           {[threw |-> FALSE, state |-> Obj(CandidateRef(c), ArgVal), partial |-> NoPartial]}
      [] k = "update" ->
           {[threw |-> FALSE, state |-> Obj(CandidateRef(c), Inc(prev.val)), partial |-> NoPartial],
            [threw |-> TRUE, state |-> prev, partial |-> NoPartial]}
      [] k = "patch" ->
           {[threw |-> FALSE, state |-> Obj(CandidateRef(c), Spread(prev.val, p)), partial |-> p] :
               p \in Partials}
      [] k = "reset" ->
           {[threw |-> FALSE, state |-> GetInitialState(CandidateRef(c)), partial |-> NoPartial]}
      [] OTHER -> {}

\* a batch api whose patch assigns the partial in place of the merge
RECURSIVE RunStepsPatchReplacing(_, _, _, _)
RunStepsPatchReplacing(state, script, c, j) ==
    IF j > Len(script) THEN [threw |-> FALSE, state |-> state, steps |-> j - 1]
    ELSE CASE script[j] = "throw" -> [threw |-> TRUE, state |-> state, steps |-> j - 1]
           [] script[j] = "update" ->
                  RunStepsPatchReplacing(Obj(StepRef(c, j), Inc(state.val)), script, c, j + 1)
           [] script[j] = "set" ->
                  RunStepsPatchReplacing(Obj(StepRef(c, j), ArgVal), script, c, j + 1)
           [] OTHER ->
                  RunStepsPatchReplacing(Obj(StepRef(c, j), [count |-> 0, tag |-> 1]),
                                         script, c, j + 1)

\* a method that reports to onUpdate although its reducer threw
ReducerFailureReported(call) ==
    [call EXCEPT !.pc = "failed", !.err = "reducer",
                 !.fired = Append(@, [name |-> "onUpdate", a |-> call.previousState,
                                      b |-> call.previousState])]

\* updaterFunction(previousState) throws: the method's promise rejects there
ReducerFailure(call) ==
    [call EXCEPT !.pc = "failed", !.err = "reducer"]

\* the batch callback: each step assigns cacheInstance.state
RECURSIVE RunSteps(_, _, _, _)
RunSteps(state, script, c, j) ==
    IF j > Len(script) THEN [threw |-> FALSE, state |-> state, steps |-> j - 1]
    ELSE CASE script[j] = "throw" -> [threw |-> TRUE, state |-> state, steps |-> j - 1]
           [] script[j] = "update" -> RunSteps(Obj(StepRef(c, j), Inc(state.val)), script, c, j + 1)
           [] script[j] = "set" -> RunSteps(Obj(StepRef(c, j), ArgVal), script, c, j + 1)
           [] OTHER -> RunSteps(Obj(StepRef(c, j),
                                    Spread(state.val, [has |-> {"tag"}, val |-> [count |-> 0, tag |-> 1]])),
                                script, c, j + 1)

\* the record a parked call gets when its await getCacheInstanceAsync() resumes
ResolvedInstance(c) == IF calls[c].waits THEN seedInstance ELSE calls[c].inst

\* await getCacheInstanceAsync() resumes: previousState is read, the candidate
\* is computed and the first middleware stage is invoked
\* a seed promise that settles only by resolving
SeedSettledOnSuccess == persistentInstanceInitializing = "resolved"

\* the awaited seed promise has settled: resolved, or rejected by adapter.read
\* or by getInitialState()
SeedSettled == persistentInstanceInitializing \in {"resolved", "rejected", "threw"}

AfterResolve(c) ==
    /\ calls[c].pc = "resolve"
    /\ calls[c].waits => SeedSettled
    \* promise jobs run in the order they were queued: a call issued earlier
    \* resumes first, unless it is parked on a seed that was still pending when
    \* this call found the record a synchronous read had created
    /\ \A d \in 1..(c - 1) :
           calls[d].pc = "resolve" =>
               /\ calls[d].waits
               /\ \/ persistentInstanceInitializing = "pending"
                  \/ ~calls[c].waits /\ calls[c].inst # seedInstance
    /\ IF calls[c].waits /\ persistentInstanceInitializing \in {"rejected", "threw"} THEN
           /\ calls' = [calls EXCEPT ![c].pc = "failed",
                                     ![c].err = IF persistentInstanceInitializing = "threw"
                                                THEN "factory" ELSE "seed"]
           /\ UNCHANGED instances
       ELSE
           LET inst == ResolvedInstance(c)
               prev == instances[inst].state
               call == [calls[c] EXCEPT !.inst = inst, !.previousState = prev]
           IN IF call.kind = "batch" THEN
                  \E script \in CallbackScripts :
                      LET run == RunSteps(prev, script, c, 1)
                          ran == [call EXCEPT !.steps = run.steps, !.candidate = run.state]
                      IN /\ instances' = [instances EXCEPT ![inst].state = run.state]
                         /\ calls' = [calls EXCEPT ![c] =
                                IF run.threw
                                THEN [ran EXCEPT !.pc = "failed", !.err = "batchCallback"]
                                ELSE ApplyBatchMiddleware(ran, c, run.state)]
              ELSE
                  \E cand \in Candidates(c, call.kind, prev) :
                      /\ calls' = [calls EXCEPT ![c] =
                             IF cand.threw
                             THEN ReducerFailure(call)
                             ELSE ApplyMiddleware([call EXCEPT !.candidate = cand.state,
                                                              !.partialState = cand.partial],
                                                 c, cand.state)]
                      /\ UNCHANGED instances
    /\ UNCHANGED <<configuration, otherInstance, observed, persistentInstance, persistentInstanceInitializing,
                   seedInstance, requestInstances, adapterStore, adapterReadCalls>>

\* the awaited stage returns: its output feeds the next stage, or the loop ends
MwStep(c) ==
    /\ calls[c].pc = "mw"
    /\ LET call == calls[c]
           out == call.mwLog[Len(call.mwLog)].out
           got == [call EXCEPT !.nextState = out]
       IN calls' = [calls EXCEPT ![c] =
              IF call.mwIdx < Len(configuration.middleware)
              THEN InvokeStage(got, c, call.mwIdx + 1, out)
              ELSE [got EXCEPT !.pc = "commit"]]
    /\ UNCHANGED <<configuration, otherInstance, observed, persistentInstance, persistentInstanceInitializing,
                   seedInstance, requestInstances, instances, adapterStore,
                   adapterReadCalls>>

\* ------------------------------------------------------------ derived cache
\* an invalidation that leaves the cache as it is
InvalidateNothing(inst) == inst

\* an invalidation that forgets the base state and keeps the derived part
InvalidateBaseOnly(inst) ==
    [inst EXCEPT !.lastDerivedBaseState = NullObj]

InvalidateDerivedCache(inst) ==
    [inst EXCEPT !.lastDerivedBaseState = NullObj, !.cachedDerivedState = NullDerived]

\* the cache test without the comparison of references
CacheHitWithoutReference(baseState, inst) ==
    inst.cachedDerivedState # NullDerived

DerivedCacheHit(baseState, inst) ==
    baseState = inst.lastDerivedBaseState /\ inst.cachedDerivedState # NullDerived

\* a computation that never records what it derived
ComputeDerivedStateUncached(baseState, inst) ==
    IF configuration.derive = "none" THEN
        [inst |-> inst, derived |-> NullDerived, invoked |-> FALSE, onError |-> <<>>,
         threw |-> FALSE]
    ELSE IF DeriveThrows(configuration, baseState.val) THEN
        [inst |-> inst, derived |-> NullDerived, invoked |-> TRUE,
         onError |-> <<[method |-> "derive", state |-> baseState]>>,
         threw |-> FALSE]
    ELSE
        [inst |-> inst, derived |-> Derive(baseState.val), invoked |-> TRUE, onError |-> <<>>,
         threw |-> FALSE]

\* a computation without the try/catch around derive
ComputeDerivedStateUncaught(baseState, inst) ==
    IF configuration.derive = "none" THEN
        [inst |-> inst, derived |-> NullDerived, invoked |-> FALSE, onError |-> <<>>,
         threw |-> FALSE]
    ELSE IF DerivedCacheHit(baseState, inst) THEN
        [inst |-> inst, derived |-> inst.cachedDerivedState, invoked |-> FALSE, onError |-> <<>>,
         threw |-> FALSE]
    ELSE IF DeriveThrows(configuration, baseState.val) THEN
        [inst |-> inst, derived |-> NullDerived, invoked |-> TRUE, onError |-> <<>>,
         threw |-> TRUE]
    ELSE
        [inst |-> [inst EXCEPT !.lastDerivedBaseState = baseState,
                               !.cachedDerivedState = Derive(baseState.val)],
         derived |-> Derive(baseState.val), invoked |-> TRUE, onError |-> <<>>,
         threw |-> FALSE]

\* a read that marks the record initialized when it fills the cache
ComputeDerivedStateMarking(baseState, inst) ==
    IF configuration.derive = "none" THEN
        [inst |-> inst, derived |-> NullDerived, invoked |-> FALSE, onError |-> <<>>,
         threw |-> FALSE]
    ELSE IF DerivedCacheHit(baseState, inst) THEN
        [inst |-> inst, derived |-> inst.cachedDerivedState, invoked |-> FALSE, onError |-> <<>>,
         threw |-> FALSE]
    ELSE IF DeriveThrows(configuration, baseState.val) THEN
        [inst |-> inst, derived |-> NullDerived, invoked |-> TRUE,
         onError |-> <<[method |-> "derive", state |-> baseState]>>,
         threw |-> FALSE]
    ELSE
        [inst |-> [inst EXCEPT !.lastDerivedBaseState = baseState,
                               !.cachedDerivedState = Derive(baseState.val),
                               !.initialized = TRUE],
         derived |-> Derive(baseState.val), invoked |-> TRUE, onError |-> <<>>,
         threw |-> FALSE]

\* computeDerivedState(baseState, cacheInstance): the record afterwards, what
\* read() hands back, and whether an exception leaves the function
ComputeDerivedState(baseState, inst) ==
    IF configuration.derive = "none" THEN
        [inst |-> inst, derived |-> NullDerived, invoked |-> FALSE, onError |-> <<>>,
         threw |-> FALSE]
    ELSE IF DerivedCacheHit(baseState, inst) THEN
        [inst |-> inst, derived |-> inst.cachedDerivedState, invoked |-> FALSE, onError |-> <<>>,
         threw |-> FALSE]
    ELSE IF DeriveThrows(configuration, baseState.val) THEN
        [inst |-> inst, derived |-> NullDerived, invoked |-> TRUE,
         onError |-> <<[method |-> "derive", state |-> baseState]>>,
         threw |-> FALSE]
    ELSE
        [inst |-> [inst EXCEPT !.lastDerivedBaseState = baseState,
                               !.cachedDerivedState = Derive(baseState.val)],
         derived |-> Derive(baseState.val), invoked |-> TRUE, onError |-> <<>>,
         threw |-> FALSE]

\* ------------------------------------------------------------------- commit
\* a commit of the state from before the middleware ran
CommitCandidate(inst, call) ==
    InvalidateDerivedCache(
        [inst EXCEPT !.state = call.candidate,
                     !.initialized = IF call.kind = "initialize" THEN TRUE ELSE @])

\* a commit that marks the record initialized on set as on initialize
CommitMarkingSet(inst, call) ==
    InvalidateDerivedCache(
        [inst EXCEPT !.state = call.nextState,
                     !.initialized = IF call.kind \in {"initialize", "set"} THEN TRUE ELSE @])

\* a commit that marks the record initialized on reset as on initialize
CommitMarkingReset(inst, call) ==
    InvalidateDerivedCache(
        [inst EXCEPT !.state = call.nextState,
                     !.initialized = IF call.kind \in {"initialize", "reset"} THEN TRUE ELSE @])

\* a commit that keeps the derived cache when the state object is unchanged
CommitKeepingCacheOnSameState(inst, call) ==
    IF call.nextState = inst.state
    THEN [inst EXCEPT !.initialized = IF call.kind = "initialize" THEN TRUE ELSE @]
    ELSE InvalidateDerivedCache(
             [inst EXCEPT !.state = call.nextState,
                          !.initialized = IF call.kind = "initialize" THEN TRUE ELSE @])

\* a commit that leaves the derived cache as it was
CommitInstanceKeepingCache(inst, call) ==
    [inst EXCEPT !.state = call.nextState,
                 !.initialized = IF call.kind = "initialize" THEN TRUE ELSE @]

\* the operation's state assignment, invalidation and the call of writeToAdapter
CommitInstance(inst, call) ==
    InvalidateDerivedCache(
        [inst EXCEPT !.state = call.nextState,
                     !.initialized = IF call.kind = "initialize" THEN TRUE ELSE @])

\* a write of the state from before the middleware ran
AdapterWriteCandidate(call) == call.candidate

\* the argument of writeToAdapter(finalState)
AdapterWriteArg(call) == call.nextState

Commit(c) ==
    /\ calls[c].pc = "commit"
    /\ instances' = [instances EXCEPT ![calls[c].inst] = CommitInstance(@, calls[c])]
    /\ IF UsesAdapter
       THEN /\ calls' = [calls EXCEPT ![c].pc = "write",
                                      ![c].wrote = Append(@, AdapterWriteArg(calls[c]))]
            /\ adapterStore' = AdapterWriteArg(calls[c])
       ELSE /\ calls' = [calls EXCEPT ![c].pc = "write"]
            /\ UNCHANGED adapterStore
    /\ UNCHANGED <<configuration, otherInstance, observed, persistentInstance, persistentInstanceInitializing,
                   seedInstance, requestInstances, adapterReadCalls>>

\* onUpdate handed the state from before the middleware ran
CallbackOfCandidate(call) ==
    CASE call.kind = "initialize" ->
           [name |-> "onInitialize", a |-> call.nextState, b |-> NullObj]
      [] call.kind = "reset" ->
           [name |-> "onReset", a |-> NullObj, b |-> NullObj]
      [] OTHER ->
           [name |-> "onUpdate", a |-> call.previousState, b |-> call.candidate]

\* a store that reports every operation through onUpdate
CallbackOfAlwaysUpdate(call) ==
    [name |-> "onUpdate", a |-> call.previousState, b |-> call.nextState]

\* the lifecycle callback of a method and its arguments
CallbackOf(call) ==
    CASE call.kind = "initialize" ->
           [name |-> "onInitialize", a |-> call.nextState, b |-> NullObj]
      [] call.kind = "reset" ->
           [name |-> "onReset", a |-> NullObj, b |-> NullObj]
      [] OTHER ->
           [name |-> "onUpdate", a |-> call.previousState, b |-> call.nextState]

\* a handler of the failed write that puts the previous state back
WriteDoneRollingBack(c) ==
    /\ calls[c].pc = "write"
    /\ \/ /\ calls' = [calls EXCEPT ![c].pc = "callback",
                                      ![c].fired = Append(@, CallbackOf(calls[c]))]
          /\ UNCHANGED instances
       \/ /\ UsesAdapter /\ configuration.faulty
          /\ calls' = [calls EXCEPT ![c].pc = "failed", ![c].err = "write"]
          /\ instances' = [instances EXCEPT ![calls[c].inst].state = calls[c].previousState]
    /\ UNCHANGED <<configuration, otherInstance, observed, persistentInstance, persistentInstanceInitializing,
                   seedInstance, requestInstances, adapterStore, adapterReadCalls>>

\* a method that invokes its callback without awaiting it
WriteDoneUnawaitedCallback(c) ==
    /\ calls[c].pc = "write"
    /\ \/ calls' = [calls EXCEPT ![c].pc = "done",
                                   ![c].fired = Append(@, CallbackOf(calls[c]))]
       \/ /\ UsesAdapter /\ configuration.faulty
          /\ calls' = [calls EXCEPT ![c].pc = "failed", ![c].err = "write"]
    /\ UNCHANGED <<configuration, otherInstance, observed, persistentInstance, persistentInstanceInitializing,
                   seedInstance, requestInstances, instances, adapterStore,
                   adapterReadCalls>>

\* await writeToAdapter() resumes: the write failed, or the callback is invoked
WriteDone(c) ==
    /\ calls[c].pc = "write"
    /\ \/ calls' = [calls EXCEPT ![c].pc = "callback",
                                   ![c].fired = Append(@, CallbackOf(calls[c]))]
       \/ /\ UsesAdapter /\ configuration.faulty
          /\ calls' = [calls EXCEPT ![c].pc = "failed", ![c].err = "write"]
    /\ UNCHANGED <<configuration, otherInstance, observed, persistentInstance, persistentInstanceInitializing,
                   seedInstance, requestInstances, instances, adapterStore,
                   adapterReadCalls>>

\* a handler of the failed callback that puts the previous state back
CallbackDoneRollingBack(c) ==
    /\ calls[c].pc = "callback"
    /\ \/ /\ calls' = [calls EXCEPT ![c].pc = "done"]
          /\ UNCHANGED instances
       \/ /\ configuration.faulty
          /\ calls' = [calls EXCEPT ![c].pc = "failed", ![c].err = "lifecycle"]
          /\ instances' = [instances EXCEPT ![calls[c].inst].state = calls[c].previousState]
    /\ UNCHANGED <<configuration, otherInstance, observed, persistentInstance, persistentInstanceInitializing,
                   seedInstance, requestInstances, adapterStore, adapterReadCalls>>

\* the awaited lifecycle callback settles
CallbackDone(c) ==
    /\ calls[c].pc = "callback"
    /\ \/ calls' = [calls EXCEPT ![c].pc = "done"]
       \/ /\ configuration.faulty
          /\ calls' = [calls EXCEPT ![c].pc = "failed", ![c].err = "lifecycle"]
    /\ UNCHANGED <<configuration, otherInstance, observed, persistentInstance, persistentInstanceInitializing,
                   seedInstance, requestInstances, instances, adapterStore,
                   adapterReadCalls>>

\* --------------------------------------------------------------------- read
\* a resolver that goes to the request-scoped cache in every storage mode
SyncInstanceRequestScoped(r) ==
    IF requestInstances[r] # 0
    THEN [id |-> requestInstances[r], heap |-> instances]
    ELSE [id |-> Len(instances) + 1,
          heap |-> Append(instances, NewInstance(GetInitialState(RequestRef(r)), FALSE))]

\* a resolver that keeps one record for all requests
SyncInstanceShared(r) ==
    LET existing == IF configuration.storage = "request"
                    THEN requestInstances[1] ELSE persistentInstance
    IN IF existing # 0
       THEN [id |-> existing, heap |-> instances]
       ELSE [id |-> Len(instances) + 1,
             heap |-> Append(instances,
                         NewInstance(GetInitialState(IF configuration.storage = "request"
                                                     THEN RequestRef(r) ELSE SyncRef),
                                     FALSE))]

\* getCacheInstanceSync(): the record of the scope, created on the spot if absent
SyncInstance(r) ==
    LET existing == IF configuration.storage = "request"
                    THEN requestInstances[r] ELSE persistentInstance
    IN IF existing # 0
       THEN [id |-> existing, heap |-> instances]
       ELSE [id |-> Len(instances) + 1,
             heap |-> Append(instances,
                         NewInstance(GetInitialState(IF configuration.storage = "request"
                                                     THEN RequestRef(r) ELSE SyncRef),
                                     FALSE))]

\* what read() issued now in request r computes: the base state it sees, the
\* derived part it returns, whether derive ran and what onError received
ReadOut(r) ==
    LET got == SyncInstance(r)
        inst == got.heap[got.id]
        res == ComputeDerivedState(inst.state, inst)
    IN [id |-> got.id, heap |-> [got.heap EXCEPT ![got.id] = res.inst],
        base |-> inst.state, derived |-> res.derived,
        invoked |-> res.invoked, onError |-> res.onError, threw |-> res.threw]

\* select(selectorFunction): selectorFunction(read()), for a selector that
\* picks the count and the derived field
SelectOut(r) ==
    LET out == ReadOut(r)
    IN [threw |-> out.threw, onError |-> out.onError,
        selected |-> IF out.threw THEN <<>>
                     ELSE <<out.base.val.count, out.derived.doubled>>]

\* read(): getCacheInstanceSync() then computeDerivedState()
ReadAccess(r) ==
    /\ IF r = 1 THEN TRUE ELSE requestInstances[r - 1] # 0
    /\ \E threw \in FactoryOutcomes :
           LET absent == IF configuration.storage = "request"
                         THEN requestInstances[r] = 0 ELSE persistentInstance = 0
               got == IF threw /\ absent
                      THEN CreateRecord(instances,
                                        IF configuration.storage = "request"
                                        THEN RequestRef(r) ELSE SyncRef, TRUE)
                      ELSE ReadOut(r)
           IN /\ instances' = got.heap
              /\ IF configuration.storage = "request"
                 THEN /\ requestInstances' = [requestInstances EXCEPT ![r] = got.id]
                      /\ UNCHANGED persistentInstance
                 ELSE /\ persistentInstance' = got.id
                      /\ UNCHANGED requestInstances
    /\ UNCHANGED <<configuration, otherInstance, persistentInstanceInitializing, seedInstance,
                   calls, adapterStore, adapterReadCalls>>

Read(r) == ReadAccess(r) /\ UNCHANGED observed

\* ------------------------------------------------------------ a second store
\* A second createServerStore(...) call (persistent, no adapter, no middleware,
\* no derive, the same initial object): its closure has its own
\* persistentInstance, here otherInstance; its records live in the same heap.

\* a persistentInstance variable shared by all stores of the module
OtherStoreInstanceShared ==
    IF persistentInstance # 0
    THEN [id |-> persistentInstance, heap |-> instances]
    ELSE [id |-> Len(instances) + 1,
          heap |-> Append(instances, NewInstance(InitialObj, FALSE))]

\* the second store resolves its record: its own variable, created if absent
OtherStoreInstance ==
    IF otherInstance # 0
    THEN [id |-> otherInstance, heap |-> instances]
    ELSE [id |-> Len(instances) + 1,
          heap |-> Append(instances, NewInstance(InitialObj, FALSE))]

OtherState == Obj(<<0, 3, 0>>, [count |-> 2, tag |-> 1])

\* the second store's set(newState), from its record to its commit
OtherStoreSet ==
    /\ LET got == OtherStoreInstance IN
       /\ got.heap[got.id].state # OtherState
       /\ otherInstance' = got.id
       /\ instances' = [got.heap EXCEPT ![got.id] =
                            InvalidateDerivedCache([@ EXCEPT !.state = OtherState])]
    /\ UNCHANGED <<configuration, persistentInstance, persistentInstanceInitializing,
                   seedInstance, requestInstances, calls, adapterStore, adapterReadCalls,
                   observed>>

\* the second store's read() as first access: getPersistentInstanceSync()
OtherStoreRead ==
    /\ otherInstance = 0
    /\ otherInstance' = OtherStoreInstance.id
    /\ instances' = OtherStoreInstance.heap
    /\ UNCHANGED <<configuration, persistentInstance, persistentInstanceInitializing,
                   seedInstance, requestInstances, calls, adapterStore, adapterReadCalls,
                   observed>>

\* a logical request is told apart only by the request-scoped cache
RequestsOf == IF configuration.storage = "request" THEN Requests ELSE {1}

Next ==
    \/ \E c \in Calls, k \in Kinds, r \in RequestsOf : Start(c, k, r)
    \/ SeedComplete
    \/ \E c \in Calls : AfterResolve(c)
    \/ \E c \in Calls : MwStep(c)
    \/ \E c \in Calls : Commit(c)
    \/ \E c \in Calls : WriteDone(c)
    \/ \E c \in Calls : CallbackDone(c)
    \/ \E r \in RequestsOf : Read(r)

Spec == Init /\ [][Next]_vars

\* two stores side by side: one operation on the first, any on the second
NextStores ==
    \/ \E k \in Kinds, r \in RequestsOf : Start(1, k, r)
    \/ SeedComplete
    \/ AfterResolve(1)
    \/ MwStep(1)
    \/ Commit(1)
    \/ WriteDone(1)
    \/ CallbackDone(1)
    \/ \E r \in RequestsOf : Read(r)
    \/ OtherStoreSet
    \/ OtherStoreRead

SpecStores == Init /\ [][NextStores]_vars

\* Every awaited promise settles: adapter.read (SeedComplete), the queued
\* continuations of getCacheInstanceAsync (AfterResolve), each middleware
\* stage (MwStep), adapter.write (WriteDone) and the lifecycle callback
\* (CallbackDone); Commit is the synchronous continuation of the last stage.
Fairness ==
    /\ WF_vars(SeedComplete)
    /\ \A c \in Calls :
           /\ WF_vars(AfterResolve(c))
           /\ WF_vars(MwStep(c))
           /\ WF_vars(Commit(c))
           /\ WF_vars(WriteDone(c))
           /\ WF_vars(CallbackDone(c))

\* The operations followed to their completion: update stands for the
\* methods that share its path (initialize, set, patch), reset calls
\* getInitialState() and batch runs its callback; one batch at a time.
LiveKinds == {"update", "reset", "batch"}

StartLive(c, k, r) ==
    /\ k = "batch" => \A d \in Calls : calls[d].kind # "batch"
    /\ Start(c, k, r)

NextLive ==
    \/ \E c \in Calls, k \in LiveKinds, r \in RequestsOf : StartLive(c, k, r)
    \/ SeedComplete
    \/ \E c \in Calls : AfterResolve(c)
    \/ \E c \in Calls : MwStep(c)
    \/ \E c \in Calls : Commit(c)
    \/ \E c \in Calls : WriteDone(c)
    \/ \E c \in Calls : CallbackDone(c)
    \/ \E r \in RequestsOf : Read(r)

SpecLive == Init /\ [][NextLive]_vars /\ Fairness

\* ------------------------------------------------- a sequential caller
\* One caller in one request runs the README's example: it awaits each
\* operation before issuing the next and calls read() between them, either
\* update, update, set as three operations or the same steps in one batch.
ProgramKinds == IF observed.mode = "batch" THEN <<"batch">> ELSE Program

InitRecalc ==
    /\ configuration \in Configs
    /\ persistentInstance = 0
    /\ persistentInstanceInitializing = "null"
    /\ seedInstance = 0
    /\ requestInstances = [r \in Requests |-> 0]
    /\ instances = <<>>
    /\ calls = [c \in Calls |-> IdleCall]
    /\ adapterStore = AdapterContentAtStart
    /\ adapterReadCalls = 0
    /\ otherInstance = 0
    /\ observed \in {[NoProgram EXCEPT !.mode = m] : m \in {"separate", "batch"}}

\* the caller issues its next operation
Issue ==
    /\ calls[1].pc = "idle"
    /\ observed.ops < Len(ProgramKinds)
    /\ Start(1, ProgramKinds[observed.ops + 1], 1)

\* `await store.update(...)` returns: the operation's promise resolved
Await ==
    /\ calls[1].pc = "done"
    /\ calls' = [calls EXCEPT ![1] = IdleCall]
    /\ observed' = [observed EXCEPT !.ops = @ + 1]
    /\ UNCHANGED <<configuration, otherInstance, persistentInstance,
                   persistentInstanceInitializing, seedInstance, requestInstances,
                   instances, adapterStore, adapterReadCalls>>

\* read() between two operations; after the first operation the caller counts
\* the derived states that derive had to produce anew
CountedRead ==
    /\ calls[1].pc = "idle"
    /\ ReadAccess(1)
    /\ observed' = [observed EXCEPT !.derives =
                        IF /\ observed.ops >= 1
                           /\ instances' = ReadOut(1).heap
                           /\ ReadOut(1).invoked
                           /\ ReadOut(1).derived # NullDerived
                        THEN @ + 1 ELSE @]

NextRecalc ==
    \/ Issue
    \/ SeedComplete
    \/ AfterResolve(1)
    \/ MwStep(1)
    \/ Commit(1)
    \/ WriteDone(1)
    \/ CallbackDone(1)
    \/ Await
    \/ CountedRead

SpecRecalc == InitRecalc /\ [][NextRecalc]_vars

\* ====================================================================== claims
Committed(c) ==
    \/ calls[c].pc \in {"write", "callback", "done"}
    \/ calls[c].pc = "failed" /\ calls[c].err \in {"write", "lifecycle"}
SoleCall(c) == \A d \in Calls \ {c} : calls[d].pc = "idle"

\* C1: in persistent mode with an adapter, adapter.read is invoked at most once
\* over the life of the store, however many mutating calls race on the seed
C1_AtMostOneAdapterRead ==
    UsesAdapter => adapterReadCalls <= 1

\* two callers parked on the same seed have both resumed with its record
C1_Witness ==
    /\ UsesAdapter
    /\ adapterReadCalls = 1
    /\ MaxCalls >= 2
    /\ \A c \in {1, 2} : calls[c].waits /\ calls[c].pc = "mw" /\ calls[c].inst = seedInstance

\* C2: read() returns the current base state merged with derive of that very
\* base state, never derived fields computed from an earlier base state
C2_ReadDerivesCurrentBase ==
    \A r \in RequestsOf :
        LET out == ReadOut(r) IN
        /\ out.base = out.heap[out.id].state
        /\ (configuration.derive # "none" /\ ~DeriveThrows(configuration, out.base.val))
               => out.derived = Derive(out.base.val)

\* a read filled the cache, then a mutation committed: the cache cannot serve
C2_Witness ==
    \E c \in Calls :
        /\ calls[c].pc = "done"
        /\ configuration.derive # "none"
        /\ instances[calls[c].inst].state = calls[c].nextState
        /\ calls[c].nextState.val # calls[c].previousState.val
        /\ instances[calls[c].inst].lastDerivedBaseState = calls[c].nextState

\* C3: a middleware stage that throws during initialize, update, set, patch or
\* reset fails the call, no later stage is invoked, nothing is written to the
\* adapter, no lifecycle callback fires, and no step of the call up to the
\* failure changes the record
C3_Aborted(c) ==
    \A i \in 1..Len(calls[c].mwLog) :
        StageThrows(configuration.middleware[i], calls[c].mwLog[i].op) =>
            /\ calls[c].pc = "failed" /\ calls[c].err = "middleware"
            /\ Len(calls[c].mwLog) = i
            /\ calls[c].wrote = <<>> /\ calls[c].fired = <<>>
            /\ SoleCall(c) => instances[calls[c].inst].state = calls[c].previousState

C3_StepLeavesRecord(c) ==
    (calls[c].pc \in {"resolve", "mw"} /\ calls'[c] # calls[c])
        => /\ instances' = instances
           /\ adapterStore' = adapterStore
           /\ persistentInstance' = persistentInstance

C3_MiddlewareThrowAborts ==
    /\ [](\A c \in Calls : calls[c].kind # "batch" => C3_Aborted(c))
    /\ [][\A c \in Calls : calls[c].kind # "batch" => C3_StepLeavesRecord(c)]_vars

\* the first of two stages threw on the only call made so far
C3_Witness ==
    \E c \in Calls :
        /\ calls[c].kind \notin {"none", "batch"}
        /\ calls[c].pc = "failed" /\ calls[c].err = "middleware"
        /\ calls[c].mwIdx < Len(configuration.middleware)
        /\ SoleCall(c)
        /\ instances[calls[c].inst].state = calls[c].previousState

\* C4: a batch that fails before its commit (the callback throws after some
\* steps, or a stage throws on the batch pass) leaves the readable state as it
\* was before the batch call
C4_FailedBatchLeavesState ==
    \A c \in Calls :
        (/\ calls[c].kind = "batch"
         /\ calls[c].pc = "failed" /\ calls[c].err \in {"batchCallback", "middleware"}
         /\ SoleCall(c))
            => \A r \in RequestsOf :
                   ReadOut(r).id = calls[c].inst => ReadOut(r).base = calls[c].previousState

\* C5 as stated: of two update calls on one record, one computed its next
\* state from the other's result (they took effect one after the other)
C5_OverlappingUpdatesSerial ==
    \A c, d \in Calls :
        (/\ c # d
         /\ calls[c].kind = "update" /\ calls[d].kind = "update"
         /\ Committed(c) /\ Committed(d)
         /\ calls[c].inst = calls[d].inst)
            => \/ calls[d].previousState = calls[c].nextState
               \/ calls[c].previousState = calls[d].nextState

\* C5 amended: with two update calls and nothing else running, the record ends
\* with the final state of the call that committed last; that call computed
\* either from the other's final state (no overlap, both take effect) or from
\* the very state the other computed from (overlap, the earlier commit is lost)
C5_LastCommitWins ==
    \A c, d \in Calls :
        (/\ c # d
         /\ calls[c].kind = "update" /\ calls[d].kind = "update"
         /\ Committed(c) /\ Committed(d)
         /\ calls[c].inst = calls[d].inst
         /\ \A e \in Calls \ {c, d} : calls[e].pc = "idle")
            => \E last \in {c, d} :
                   LET first == CHOOSE x \in {c, d} : x # last IN
                   /\ instances[calls[c].inst].state = calls[last].nextState
                   /\ \/ calls[last].previousState = calls[first].nextState
                      \/ calls[last].previousState = calls[first].previousState

\* two overlapping updates have both completed and one increment is lost
C5_Witness ==
    \E c, d \in Calls :
        /\ c # d
        /\ calls[c].kind = "update" /\ calls[d].kind = "update"
        /\ Committed(c) /\ Committed(d)
        /\ calls[c].inst = calls[d].inst
        /\ calls[c].previousState = calls[d].previousState
        /\ instances[calls[c].inst].state = calls[d].nextState
        /\ configuration.middleware = <<>>
        /\ instances[calls[c].inst].state.val = Inc(calls[c].previousState.val)

\* C6: in persistent mode every operation resolves to the one record, so the
\* record a call committed to is the record every later access resolves to
C6_SingleRecord ==
    configuration.storage = "persistent" =>
        \A c \in Calls : Committed(c) => calls[c].inst = persistentInstance

\* C7: with an adapter, whatever operation makes the first access, adapter.read
\* has been invoked exactly once as soon as the store has been accessed
C7_FirstAccessReadsAdapter ==
    (UsesAdapter /\ (persistentInstance # 0 \/ persistentInstanceInitializing # "null"))
        => adapterReadCalls = 1

\* the pipeline as a function of values: stage n after ... after stage 1
StageVal(stage, val) ==
    CASE stage = "addOne" -> Inc(val)
      [] stage = "double" -> Double(val)
      [] OTHER -> val

RECURSIVE FoldVal(_, _, _)
FoldVal(stages, n, val) ==
    IF n = 0 THEN val ELSE StageVal(stages[n], FoldVal(stages, n - 1, val))

PastPipeline(c) == calls[c].pc = "commit" \/ Committed(c)

\* C8: the pipeline is a left-to-right fold: stage i is invoked only once stage
\* i-1 has returned, every stage gets the call's kind and previousState, stage
\* i gets the output of stage i-1 (the candidate for stage 1), and the state
\* committed is the output of the last stage
C8_PipelineIsFold ==
    \A c \in Calls :
        LET call == calls[c]
            log == call.mwLog
            n == Len(configuration.middleware)
        IN /\ Len(log) <= n
           /\ call.pc = "mw" => Len(log) = call.mwIdx
           /\ \A i \in 1..Len(log) :
                  /\ log[i].op.type = call.kind
                  /\ log[i].op.previousState = call.previousState
                  /\ log[i].op.nextState = IF i = 1 THEN call.candidate ELSE log[i - 1].out
           /\ PastPipeline(c) =>
                  /\ Len(log) = n
                  /\ call.nextState = IF n = 0 THEN call.candidate ELSE log[n].out
                  /\ call.nextState.val = FoldVal(configuration.middleware, n, call.candidate.val)
           /\ (Committed(c) /\ SoleCall(c)) => instances[call.inst].state = call.nextState

\* a call went through two transforming stages and committed their result
C8_Witness ==
    \E c \in Calls :
        /\ calls[c].pc = "done"
        /\ Len(calls[c].mwLog) = 2
        /\ calls[c].mwLog[1].out.val # calls[c].candidate.val
        /\ calls[c].mwLog[2].out.val # calls[c].mwLog[1].out.val
        /\ instances[calls[c].inst].state = calls[c].mwLog[2].out

\* C9: whatever number of steps its callback performs, a batch runs the
\* pipeline once, after the callback, with kind batch, previousState the state
\* at batch start and nextState the state the steps accumulated (previousState
\* itself for no step); no stage is invoked for a step or after a throw
C9_BatchPipelineOnce ==
    \A c \in Calls :
        LET call == calls[c]
            log == call.mwLog
            n == Len(configuration.middleware)
        IN call.kind = "batch" =>
            /\ Len(log) <= n
            /\ \A i \in 1..Len(log) :
                   /\ log[i].op.type = "batch"
                   /\ log[i].op.previousState = call.previousState
                   /\ i = 1 => log[i].op.nextState = call.candidate
            /\ PastPipeline(c) => Len(log) = n
            /\ (call.steps = 0 /\ call.pc # "resolve") => call.candidate = call.previousState
            /\ call.err = "batchCallback" => log = <<>>
            /\ call.pc = "resolve" => log = <<>>

\* a batch of two steps has run its single pass over a non-empty pipeline
C9_Witness ==
    \E c \in Calls :
        /\ calls[c].kind = "batch"
        /\ calls[c].steps = 2
        /\ calls[c].pc = "done"
        /\ Len(calls[c].mwLog) >= 1
        /\ calls[c].candidate.val # calls[c].previousState.val
        /\ calls[c].mwLog[1].op.nextState = calls[c].candidate

\* C10: a successful batch makes one adapter.write (persistent mode with an
\* adapter) and one onUpdate call, both with the final post-middleware state,
\* onUpdate getting (state before the batch, final state); the commit leaves
\* the cache empty, so the read that follows invokes derive
C10_Done(c) ==
    LET call == calls[c] IN
    /\ call.wrote = IF UsesAdapter THEN <<call.nextState>> ELSE <<>>
    /\ call.fired = <<[name |-> "onUpdate", a |-> call.previousState, b |-> call.nextState]>>
    /\ call.nextState.val =
           FoldVal(configuration.middleware, Len(configuration.middleware), call.candidate.val)

C10_CommitStep(c) ==
    (calls[c].pc = "commit" /\ calls'[c].pc = "write" /\ configuration.derive # "none")
        => \A r \in RequestsOf :
               ReadOut(r)'.id = calls[c].inst => ReadOut(r)'.invoked

C10_BatchOnce ==
    /\ [](\A c \in Calls : (calls[c].kind = "batch" /\ calls[c].pc = "done") => C10_Done(c))
    /\ [][\A c \in Calls : calls[c].kind = "batch" => C10_CommitStep(c)]_vars

\* a batch of two steps completed on a persistent store with adapter and derive
C10_Witness ==
    \E c \in Calls :
        /\ calls[c].kind = "batch" /\ calls[c].pc = "done" /\ calls[c].steps = 2
        /\ UsesAdapter /\ configuration.derive # "none"
        /\ Len(calls[c].wrote) = 1 /\ Len(calls[c].fired) = 1
        /\ adapterStore = calls[c].nextState

\* C11: in persistent mode with an adapter, a mutating operation has invoked
\* adapter.write not at all before its commit and exactly once from its commit
\* on, with the final post-middleware state; the write is invoked in the step
\* that commits that state to the record, and the lifecycle callback is
\* invoked only in a later step
C11_Written(c) ==
    LET call == calls[c] IN
    /\ call.pc \in {"idle", "resolve", "mw", "commit"} => call.wrote = <<>>
    /\ call.pc \in {"write", "callback", "done"} => call.wrote = <<call.nextState>>
    /\ call.pc = "done" =>
           call.nextState.val = FoldVal(configuration.middleware,
                                        Len(configuration.middleware), call.candidate.val)
    /\ call.fired # <<>> => call.wrote = <<call.nextState>>

C11_WriteStep(c) ==
    /\ calls'[c].wrote # calls[c].wrote =>
           /\ calls[c].pc = "commit" /\ calls'[c].pc = "write"
           /\ instances'[calls[c].inst].state = calls[c].nextState
           /\ adapterStore' = calls[c].nextState
           /\ calls'[c].fired = <<>>
    /\ calls'[c].fired # calls[c].fired =>
           /\ calls[c].pc = "write"
           /\ calls'[c].wrote = calls[c].wrote

C11_WriteOncePerOperation ==
    /\ [](configuration.storage = "persistent" /\ configuration.adapter # "none"
             => \A c \in Calls : C11_Written(c))
    /\ [][configuration.storage = "persistent" /\ configuration.adapter # "none"
             => \A c \in Calls : C11_WriteStep(c)]_vars

\* an operation has completed on a store with adapter and transforming middleware
C11_Witness ==
    /\ configuration.storage = "persistent" /\ configuration.adapter # "none"
    /\ Len(configuration.middleware) > 0
    /\ \E c \in Calls :
           /\ calls[c].pc = "done"
           /\ calls[c].wrote = <<calls[c].nextState>>
           /\ calls[c].nextState.val # calls[c].candidate.val
           /\ adapterStore = calls[c].nextState

\* C12: in request mode neither adapter.read nor adapter.write is ever
\* invoked, whatever the operations and even with an adapter configured: no
\* read is counted, no call has written, and the adapter holds what it held
C12_RequestModeNeverUsesAdapter ==
    configuration.storage = "request" =>
        /\ adapterReadCalls = 0
        /\ \A c \in Calls : calls[c].wrote = <<>>
        /\ adapterStore = IF configuration.adapter = "stored" THEN StoredObj ELSE NullObj
        /\ persistentInstanceInitializing = "null"

\* a state-changing operation completed in request mode with an adapter configured
C12_Witness ==
    /\ configuration.storage = "request"
    /\ configuration.adapter # "none"
    /\ \E c \in Calls :
           /\ calls[c].pc = "done"
           /\ calls[c].nextState.val # calls[c].previousState.val
           /\ instances[calls[c].inst].state = calls[c].nextState

\* the read() issued right after a read() in request r: it resolves to the
\* record the first read resolved to, as the first read left it
SecondRead(r) ==
    LET first == ReadOut(r)
        inst == first.heap[first.id]
    IN ComputeDerivedState(inst.state, inst)

DeriveCalls(r) ==
    (IF ReadOut(r).invoked THEN 1 ELSE 0) + (IF SecondRead(r).invoked THEN 1 ELSE 0)

\* C13 as stated: for every base state, two consecutive reads invoke derive at
\* most once in total and return the same derived portion
C13_TwoReadsDeriveOnce ==
    \A r \in RequestsOf :
        /\ DeriveCalls(r) <= 1
        /\ SecondRead(r).derived = ReadOut(r).derived

\* C13 amended: for a base state on which derive does not throw, two
\* consecutive reads invoke derive at most once in total and return the same
\* derived portion; when derive throws nothing is cached, each of the two reads
\* invokes derive and onError, and both return no derived portion
C13_TwoReadsDeriveOnceUnlessThrows ==
    \A r \in RequestsOf :
        LET first == ReadOut(r)
            second == SecondRead(r)
        IN /\ second.derived = first.derived
           /\ ~DeriveThrows(configuration, first.base.val) =>
                  /\ DeriveCalls(r) <= 1
                  /\ ~second.invoked
           /\ (configuration.derive # "none" /\ DeriveThrows(configuration, first.base.val)) =>
                  /\ DeriveCalls(r) = 2
                  /\ first.derived = NullDerived
                  /\ second.onError = first.onError /\ Len(first.onError) = 1

\* after a commit the next read misses the cache and derive returns a value
C13_Witness ==
    \E c \in Calls, r \in RequestsOf :
        /\ calls[c].pc = "done"
        /\ ReadOut(r).id = calls[c].inst
        /\ ReadOut(r).invoked
        /\ ReadOut(r).derived # NullDerived
        /\ ReadOut(r).base = calls[c].nextState
        /\ ~SecondRead(r).invoked

\* C14: when derive throws on the current base state, read() and select() do
\* not raise, read() returns the base state with no derived field, and onError
\* is invoked once for that read, with method "derive" and that base state
C14_DeriveFailureContained ==
    \A r \in RequestsOf :
        LET out == ReadOut(r) IN
        (configuration.derive # "none" /\ DeriveThrows(configuration, out.base.val)) =>
            /\ ~out.threw /\ ~SelectOut(r).threw
            /\ out.base = out.heap[out.id].state
            /\ out.derived = NullDerived
            /\ SelectOut(r).selected = <<out.base.val.count, NullDerived.doubled>>
            /\ out.invoked
            /\ out.onError = <<[method |-> "derive", state |-> out.base]>>
            /\ out.heap[out.id].cachedDerivedState = instances[out.id].cachedDerivedState

\* an operation committed a state on which derive throws, from a state on
\* which it does not, and the read that follows reports the failure to onError
C14_Witness ==
    \E c \in Calls, r \in RequestsOf :
        /\ configuration.derive = "partial"
        /\ calls[c].pc = "done"
        /\ ReadOut(r).id = calls[c].inst
        /\ ReadOut(r).base = calls[c].nextState
        /\ ~DeriveThrows(configuration, calls[c].previousState.val)
        /\ DeriveThrows(configuration, ReadOut(r).base.val)
        /\ Len(ReadOut(r).onError) = 1

\* C15: when adapter.write fails the call fails with that error, its lifecycle
\* callback is never invoked, and the failure changes neither the record nor
\* the adapter: the record keeps the newly committed state, with the derived
\* cache emptied by the commit (or refilled from that state by a later read)
C15_WriteFailed(c) ==
    LET call == calls[c] IN
    (call.pc = "failed" /\ call.err = "write") =>
        /\ call.fired = <<>>
        /\ call.wrote = <<call.nextState>>
        /\ SoleCall(c) =>
               /\ instances[call.inst].state = call.nextState
               /\ instances[call.inst].lastDerivedBaseState \in {NullObj, call.nextState}
               /\ \A r \in RequestsOf :
                      ReadOut(r).id = call.inst => ReadOut(r).base = call.nextState

C15_FailureStep(c) ==
    (calls'[c].err = "write" /\ calls[c].err # "write") =>
        /\ calls[c].pc = "write" /\ calls'[c].pc = "failed"
        /\ instances' = instances
        /\ adapterStore' = adapterStore

C15_WriteFailureKeepsCommit ==
    /\ [](\A c \in Calls : C15_WriteFailed(c))
    /\ [][\A c \in Calls : C15_FailureStep(c)]_vars

\* the write of a state-changing operation failed on a store with derive
C15_Witness ==
    \E c \in Calls :
        /\ calls[c].pc = "failed" /\ calls[c].err = "write"
        /\ SoleCall(c)
        /\ configuration.derive # "none"
        /\ calls[c].nextState.val # calls[c].previousState.val
        /\ instances[calls[c].inst].state = calls[c].nextState
        /\ instances[calls[c].inst].lastDerivedBaseState = NullObj

\* C16: when onInitialize, onUpdate or onReset fails the call fails with that
\* error; by then the new state is committed to the record and has been
\* passed to adapter.write (persistent mode with an adapter), and the failure
\* changes neither the record nor the adapter
C16_CallbackFailed(c) ==
    LET call == calls[c] IN
    (call.pc = "failed" /\ call.err = "lifecycle") =>
        /\ call.fired = <<CallbackOf(call)>>
        /\ call.wrote = IF configuration.storage = "persistent" /\ configuration.adapter # "none"
                        THEN <<call.nextState>> ELSE <<>>
        /\ SoleCall(c) =>
               /\ instances[call.inst].state = call.nextState
               /\ (configuration.storage = "persistent" /\ configuration.adapter # "none")
                      => adapterStore = call.nextState
               /\ \A r \in RequestsOf :
                      ReadOut(r).id = call.inst => ReadOut(r).base = call.nextState

C16_FailureStep(c) ==
    (calls'[c].err = "lifecycle" /\ calls[c].err # "lifecycle") =>
        /\ calls[c].pc = "callback" /\ calls'[c].pc = "failed"
        /\ instances' = instances
        /\ adapterStore' = adapterStore

C16_CallbackFailureKeepsCommit ==
    /\ [](\A c \in Calls : C16_CallbackFailed(c))
    /\ [][\A c \in Calls : C16_FailureStep(c)]_vars

\* onInitialize failed after the state was committed and written
C16_Witness ==
    \E c \in Calls :
        /\ calls[c].kind = "initialize"
        /\ calls[c].pc = "failed" /\ calls[c].err = "lifecycle"
        /\ SoleCall(c)
        /\ UsesAdapter
        /\ calls[c].nextState.val # calls[c].previousState.val
        /\ instances[calls[c].inst].state = calls[c].nextState
        /\ adapterStore = calls[c].nextState
        /\ calls[c].fired[1].name = "onInitialize"

CommitStepOf(c) == calls[c].pc = "commit" /\ calls'[c].pc = "write"

\* C17 as stated: once a set has committed, the record it committed to is
\* initialized, as after an initialize
C17_SetMarksInitialized ==
    \A c \in Calls :
        (calls[c].kind = "set" /\ Committed(c) /\ SoleCall(c))
            => instances[calls[c].inst].initialized

\* C17 amended: the commit of a set leaves the initialized flag of the record
\* as it was (false on an uninitialized record), while the commit of an
\* initialize sets it
C17_SetKeepsInitialized ==
    [][\A c \in Calls :
          /\ (calls[c].kind = "set" /\ CommitStepOf(c)) =>
                 /\ instances'[calls[c].inst].state = calls[c].nextState
                 /\ instances'[calls[c].inst].initialized = instances[calls[c].inst].initialized
          /\ (calls[c].kind = "initialize" /\ CommitStepOf(c)) =>
                 instances'[calls[c].inst].initialized]_vars

\* a set completed on a fresh record, which is still uninitialized
C17_Witness ==
    \E c \in Calls :
        /\ calls[c].kind = "set" /\ calls[c].pc = "done"
        /\ SoleCall(c)
        /\ instances[calls[c].inst].state = calls[c].nextState
        /\ ~instances[calls[c].inst].initialized

\* C18 as stated: once a reset has committed, the record it committed to is
\* initialized, also when it was uninitialized before
C18_ResetMarksInitialized ==
    \A c \in Calls :
        (calls[c].kind = "reset" /\ Committed(c) /\ SoleCall(c))
            => instances[calls[c].inst].initialized

\* C18 amended: the commit of a reset leaves the initialized flag of the record
\* as it was: an uninitialized record stays uninitialized and an initialized
\* one stays initialized
C18_ResetKeepsInitialized ==
    [][\A c \in Calls :
          (calls[c].kind = "reset" /\ CommitStepOf(c)) =>
              /\ instances'[calls[c].inst].state = calls[c].nextState
              /\ instances'[calls[c].inst].initialized = instances[calls[c].inst].initialized]_vars

\* a reset completed on a fresh record, which is still uninitialized
C18_Witness ==
    \E c \in Calls :
        /\ calls[c].kind = "reset" /\ calls[c].pc = "done"
        /\ SoleCall(c)
        /\ instances[calls[c].inst].state = calls[c].nextState
        /\ ~instances[calls[c].inst].initialized

\* the state object was made for request r: the configured initial value, the
\* factory result of r's record, or an object created by a call of request r
MadeInRequest(obj, r) ==
    \/ obj = InitialObj
    \/ obj.ref = RequestRef(r)
    \/ obj.ref[1] \in Calls /\ calls[obj.ref[1]].req = r

\* C19: in request mode every operation of a request resolves to that
\* request's record, two requests never share a record, the state a request
\* reads was never committed by a call of another request, and the first
\* access of a request creates a record holding the initial value (or a fresh
\* factory result), uninitialized
C19_Isolated ==
    configuration.storage = "request" =>
        /\ \A c \in Calls :
               (calls[c].pc # "idle" /\ calls[c].err # "factory")
                   => calls[c].inst = requestInstances[calls[c].req]
        /\ \A r1, r2 \in Requests :
               (r1 # r2 /\ requestInstances[r1] # 0) => requestInstances[r1] # requestInstances[r2]
        /\ \A r \in Requests :
               /\ MadeInRequest(ReadOut(r).base, r)
               /\ requestInstances[r] = 0 =>
                      /\ ReadOut(r).base = GetInitialState(RequestRef(r))
                      /\ ~ReadOut(r).heap[ReadOut(r).id].initialized

C19_FirstAccess(r) ==
    (requestInstances[r] = 0 /\ requestInstances'[r] # 0) =>
        /\ requestInstances'[r] = Len(instances) + 1
        /\ instances'[requestInstances'[r]].state = GetInitialState(RequestRef(r))
        /\ ~instances'[requestInstances'[r]].initialized

C19_RequestIsolation ==
    /\ []C19_Isolated
    /\ [][configuration.storage = "request" => \A r \in Requests : C19_FirstAccess(r)]_vars

\* request 1 initialized its record to another state, and request 2 holds a
\* record of its own, created later, with the initial value
C19_Witness ==
    /\ configuration.storage = "request"
    /\ MaxRequests >= 2
    /\ \E c \in Calls :
           /\ calls[c].kind = "initialize" /\ calls[c].pc = "done" /\ calls[c].req = 1
           /\ instances[requestInstances[1]].state = calls[c].nextState
           /\ calls[c].nextState.val # InitialVal
    /\ requestInstances[2] # 0
    /\ requestInstances[2] > requestInstances[1]
    /\ instances[requestInstances[2]].state.val = InitialVal
    /\ ~instances[requestInstances[2]].initialized
    /\ ReadOut(2).base.val = InitialVal

\* the requests a read can be issued from with respect to a call: the call's
\* own request in request mode, any logical request in persistent mode
ReadersOf(c) ==
    IF configuration.storage = "request" THEN {calls[c].req} ELSE Requests

\* C20: once a mutating operation issued with nothing else in flight has
\* completed and no operation was issued after it, read() returns base fields
\* equal to its final post-middleware state; in persistent mode this is so for
\* a read from any logical request
C20_ReadSeesLastCommit ==
    \A c \in Calls :
        (/\ calls[c].pc = "done" /\ calls[c].alone
         /\ \A d \in Calls : d > c => calls[d].pc = "idle")
            => /\ calls[c].nextState.val =
                      FoldVal(configuration.middleware, Len(configuration.middleware),
                              calls[c].candidate.val)
               /\ \A r \in ReadersOf(c) :
                      /\ ReadOut(r).base = calls[c].nextState
                      /\ ReadOut(r).id = calls[c].inst

\* a second operation, issued after the first had finished, completed on a
\* persistent store and changed the state the first had left
C20_Witness ==
    /\ configuration.storage = "persistent"
    /\ MaxCalls >= 2 /\ MaxRequests >= 2
    /\ calls[1].pc = "done"
    /\ calls[2].pc = "done" /\ calls[2].alone
    /\ calls[2].previousState = calls[1].nextState
    /\ calls[2].nextState.val # calls[1].nextState.val
    /\ ReadOut(2).base = calls[2].nextState

\* C21: while a batch is pending (its callback has returned, its middleware
\* pass has not finished), a read() returns the state from before the batch,
\* not the state its steps accumulated
C21_PendingBatchInvisible ==
    \A c \in Calls :
        (/\ calls[c].kind = "batch"
         /\ calls[c].pc \in {"mw", "commit"}
         /\ SoleCall(c))
            => \A r \in RequestsOf :
                   ReadOut(r).id = calls[c].inst => ReadOut(r).base = calls[c].previousState

\* the closure state of the first store
FirstStoreVars ==
    <<persistentInstance, persistentInstanceInitializing, seedInstance,
      requestInstances, calls, adapterStore, adapterReadCalls>>

C22_Frame ==
    \/ /\ otherInstance' = otherInstance
       /\ otherInstance # 0 => instances'[otherInstance] = instances[otherInstance]
    \/ /\ FirstStoreVars' = FirstStoreVars
       /\ \A i \in 1..Len(instances) : i # otherInstance => instances'[i] = instances[i]

C22_Apart ==
    otherInstance # 0 =>
        /\ otherInstance \notin {persistentInstance, seedInstance}
        /\ \A r \in Requests : requestInstances[r] # otherInstance
        /\ \A c \in Calls : calls[c].inst # otherInstance

\* C22: stores are independent: every step either leaves the second store's
\* record (state, initialized flag, derived cache) untouched or leaves every
\* record and variable of the first store untouched, the two stores never
\* hold the same record, and no step changes the configuration
C22_StoresIndependent ==
    /\ []C22_Apart
    /\ [][C22_Frame /\ configuration' = configuration]_vars

\* both stores hold a committed state of their own
C22_Witness ==
    /\ otherInstance # 0
    /\ instances[otherInstance].state = OtherState
    /\ calls[1].pc = "done"
    /\ instances[calls[1].inst].state = calls[1].nextState
    /\ calls[1].nextState.val # InitialVal
    /\ calls[1].nextState # OtherState

\* ------------------------------------------------------------------- C23
\* a step in which getInitialState() throws during the creation of a record:
\* a request-mode operation is rejected at once, or the seed promise rejects
FactoryThrowStep ==
    \/ \E c \in Calls : /\ calls[c].err # "factory"
                        /\ calls'[c].err = "factory"
                        /\ ~calls[c].waits
    \/ /\ persistentInstanceInitializing # "threw"
       /\ persistentInstanceInitializing' = "threw"

\* C23: when the initial-state factory throws while a record is being
\* created, no record is stored (the heap and both scope pointers are as
\* before, the seed hands out no record, and no stored record lacks a state),
\* and every operation waiting for that creation fails with the factory's
\* exception without touching any record
C23_FactoryThrowCachesNothing ==
    /\ [](\A i \in 1..Len(instances) : instances[i].state # NullObj)
    /\ [](persistentInstanceInitializing = "threw" => seedInstance = 0)
    /\ [][FactoryThrowStep =>
              /\ instances' = instances
              /\ persistentInstance' = persistentInstance
              /\ requestInstances' = requestInstances]_vars
    /\ [][\A c \in Calls :
              (/\ calls[c].pc = "resolve"
               /\ calls[c].waits
               /\ persistentInstanceInitializing = "threw"
               /\ calls'[c] # calls[c])
                  => /\ calls'[c].pc = "failed"
                     /\ calls'[c].err = "factory"
                     /\ instances' = instances]_vars

\* the seed's factory threw, the operation that started it was rejected with
\* that exception, and the store has no record at all
C23_Witness ==
    /\ persistentInstanceInitializing = "threw"
    /\ calls[1].pc = "failed"
    /\ calls[1].err = "factory"
    /\ persistentInstance = 0
    /\ instances = <<>>

\* the same in request mode: the operation was rejected and its request has
\* no record
C23_RequestWitness ==
    /\ configuration.storage = "request"
    /\ calls[1].pc = "failed"
    /\ calls[1].err = "factory"
    /\ requestInstances[calls[1].req] = 0

\* ------------------------------------------------------------------- C24
\* call c commits the very object that is the record's state, and the derived
\* cache holds the derived part of that object
SameStateCommit(c) ==
    LET inst == instances[calls[c].inst] IN
    /\ CommitStepOf(c)
    /\ calls[c].nextState = inst.state
    /\ inst.lastDerivedBaseState = inst.state
    /\ inst.cachedDerivedState # NullDerived

SeedStep ==
    /\ persistentInstanceInitializing # "resolved"
    /\ persistentInstanceInitializing' = "resolved"

\* the operation that started the seed is parked on it and the seed has settled
SeederParked ==
    /\ calls[1].waits
    /\ calls[1].pc = "resolve"
    /\ persistentInstanceInitializing = "resolved"

\* C25: the record the seed stores holds the value adapter.read returned,
\* initialized, or, when there is no stored value, the configured initial
\* state, uninitialized; nothing changes that record's state before the
\* operation that started the seed resumes, and that operation's previousState
\* is the record's state
C25_SeededRecord ==
    /\ [][SeedStep =>
              LET rec == instances'[seedInstance'] IN
              /\ persistentInstance' = seedInstance'
              /\ \E adapterState \in AdapterReadResults :
                     IF UsesAdapter /\ adapterState # NullObj
                     THEN rec.state = adapterState /\ rec.initialized
                     ELSE rec.state = GetInitialState(SeedRef) /\ ~rec.initialized]_vars
    /\ [][(SeederParked /\ SeederParked') =>
              instances'[seedInstance].state = instances[seedInstance].state]_vars
    /\ [][(SeederParked /\ ~SeederParked') =>
              calls'[1].previousState = instances[seedInstance].state]_vars

\* the first operation found a stored value: it runs on the seeded record,
\* which is initialized, with the stored value as its previousState
C25_Witness ==
    /\ configuration.adapter = "stored"
    /\ calls[1].waits
    /\ calls[1].pc = "commit"
    /\ calls[1].kind = "update"
    /\ calls[1].inst = seedInstance
    /\ calls[1].previousState = StoredObj
    /\ instances[seedInstance].initialized

\* the first operation found no stored value: its previousState is the
\* configured initial state and the record is not initialized
C25_AbsentWitness ==
    /\ configuration.adapter = "empty"
    /\ calls[1].waits
    /\ calls[1].pc = "commit"
    /\ calls[1].kind = "update"
    /\ calls[1].previousState = GetInitialState(SeedRef)
    /\ ~instances[seedInstance].initialized

\* ------------------------------------------------------------------- C26
\* call c resumes with its record: the step that takes it out of "resolve"
\* other than by the failure of the record's creation
ResolveStep(c) ==
    /\ calls[c].pc = "resolve"
    /\ calls'[c].pc # "resolve"
    /\ calls'[c].err \notin {"seed", "factory"}

\* C26: the previousState of an operation is the state its record held at the
\* moment the operation resolved the record, before any change the operation
\* makes (the steps of a batch included), it never changes afterwards, and
\* every descriptor handed to a middleware stage carries the kind of the
\* method that was called and that previousState
C26_DescriptorKindAndPrevious ==
    /\ [][\A c \in Calls :
              ResolveStep(c) =>
                  calls'[c].previousState = instances[calls'[c].inst].state]_vars
    /\ [][\A c \in Calls :
              calls[c].pc \notin {"idle", "resolve"} =>
                  /\ calls'[c].previousState = calls[c].previousState
                  /\ calls'[c].kind = calls[c].kind]_vars
    /\ [](\A c \in Calls :
              \A i \in 1..Len(calls[c].mwLog) :
                  /\ calls[c].kind \in Kinds
                  /\ calls[c].mwLog[i].op.type = calls[c].kind
                  /\ calls[c].mwLog[i].op.previousState = calls[c].previousState)

\* the second stage of a batch is handed the state from before the batch
\* although the record already holds what the steps accumulated
C26_Witness ==
    \E c \in Calls :
        /\ calls[c].kind = "batch"
        /\ calls[c].steps > 0
        /\ Len(calls[c].mwLog) = 2
        /\ calls[c].mwLog[2].op.type = "batch"
        /\ calls[c].mwLog[2].op.previousState = calls[c].previousState
        /\ instances[calls[c].inst].state # calls[c].previousState

\* ------------------------------------------------------------------- C27
\* the candidate of update, set and patch, computed from the state before
CandidateMatches(call) ==
    CASE call.kind = "update" -> call.candidate.val = Inc(call.previousState.val)
      [] call.kind = "set" -> call.candidate.val = ArgVal
      [] call.kind = "patch" ->
           \E p \in Partials : call.candidate.val = Spread(call.previousState.val, p)
      [] OTHER -> FALSE

\* the lifecycle callback of call c has been invoked
CallbackInvoked(c) ==
    \/ calls[c].pc \in {"callback", "done"}
    \/ calls[c].pc = "failed" /\ calls[c].err = "lifecycle"

\* C27: update, set and patch invoke onUpdate once, after the commit and the
\* write, with (state before the operation, final post-middleware state);
\* when nothing else is in flight the second argument is the state read() then
\* returns; without middleware the committed state is the candidate itself:
\* reducer(current), newState, or current merged with partial
C27_OnUpdateArguments ==
    \A c \in Calls :
        LET call == calls[c] IN
        call.kind \in {"update", "set", "patch"} =>
            /\ call.fired = IF CallbackInvoked(c)
                            THEN <<[name |-> "onUpdate", a |-> call.previousState,
                                    b |-> call.nextState]>>
                            ELSE <<>>
            /\ (CallbackInvoked(c) /\ call.alone /\ \A d \in Calls : d > c => calls[d].pc = "idle")
                   => \A r \in ReadersOf(c) :
                          /\ ReadOut(r).id = call.inst
                          /\ ReadOut(r).base = call.fired[1].b
            /\ PastPipeline(c) =>
                   /\ CandidateMatches(call)
                   /\ Len(configuration.middleware) = 0 => call.nextState = call.candidate

\* an update went through transforming middleware: onUpdate got the state
\* before and the transformed state, which is what read() returns
C27_Witness ==
    \E c \in Calls :
        /\ calls[c].kind = "update"
        /\ calls[c].pc = "done"
        /\ calls[c].alone
        /\ calls[c].fired[1].a = calls[c].previousState
        /\ calls[c].fired[1].b.val # calls[c].candidate.val
        /\ ReadOut(1).base = calls[c].fired[1].b

\* a patch without middleware committed current merged with partial
C27_PatchWitness ==
    \E c \in Calls :
        /\ calls[c].kind = "patch"
        /\ calls[c].pc = "done"
        /\ Len(configuration.middleware) = 0
        /\ calls[c].candidate.val # calls[c].previousState.val
        /\ ReadOut(calls[c].req).base = calls[c].candidate

\* ------------------------------------------------------------------- C28
\* C28: the candidate of patch(partial) has, for every key of the state, the
\* value of partial when partial has the key and the current value otherwise;
\* for an empty partial it equals the current state (in a new object); without
\* middleware that candidate is what the patch commits
C28_PatchMerges ==
    \A c \in Calls :
        LET call == calls[c] IN
        (call.kind = "patch" /\ PastPipeline(c)) =>
            /\ call.partialState \in Partials
            /\ DOMAIN call.candidate.val = DOMAIN call.previousState.val
            /\ \A k \in DOMAIN call.previousState.val :
                   call.candidate.val[k] = IF k \in call.partialState.has
                                           THEN call.partialState.val[k]
                                           ELSE call.previousState.val[k]
            /\ call.partialState.has = {} => call.candidate.val = call.previousState.val
            /\ Len(configuration.middleware) = 0 => call.nextState = call.candidate
            /\ (Len(configuration.middleware) = 0 /\ Committed(c) /\ SoleCall(c))
                   => instances[call.inst].state = call.candidate

\* a patch of one key committed on a state whose other key did not have the
\* partial's value for it: that key kept its value, the patched key changed
C28_Witness ==
    \E c \in Calls :
        /\ calls[c].kind = "patch"
        /\ calls[c].pc = "done"
        /\ calls[c].partialState.has = {"tag"}
        /\ calls[c].previousState.val.count # calls[c].partialState.val.count
        /\ calls[c].candidate.val.count = calls[c].previousState.val.count
        /\ calls[c].candidate.val.tag # calls[c].previousState.val.tag

\* a patch with an empty partial committed a state equal to the current one
C28_EmptyWitness ==
    \E c \in Calls :
        /\ calls[c].kind = "patch"
        /\ calls[c].pc = "done"
        /\ calls[c].partialState.has = {}
        /\ calls[c].previousState.val # InitialVal
        /\ instances[calls[c].inst].state.val = calls[c].previousState.val

\* ------------------------------------------------------------------- C29
\* C29: the candidate of reset is a fresh evaluation of the configured initial
\* value or factory, whatever the state before; reset commits the pipeline's
\* output for it (the candidate itself without middleware) and writes that
\* state to the adapter; with nothing else in flight read() then returns it,
\* the configured initial state when there is no middleware; no step of a
\* reset that has been issued invokes adapter.read
C29_ResetToInitial ==
    /\ [](\A c \in Calls :
              LET call == calls[c]
                  n == Len(configuration.middleware)
              IN (call.kind = "reset" /\ PastPipeline(c)) =>
                     /\ call.candidate = GetInitialState(CandidateRef(c))
                     /\ call.nextState.val = FoldVal(configuration.middleware, n, InitialVal)
                     /\ n = 0 => call.nextState = call.candidate
                     /\ call.wrote = IF Committed(c) /\ UsesAdapter
                                     THEN <<call.nextState>> ELSE <<>>
                     /\ (/\ Committed(c) /\ call.alone
                         /\ \A d \in Calls : d > c => calls[d].pc = "idle")
                            => \A r \in ReadersOf(c) :
                                   /\ ReadOut(r).base = call.nextState
                                   /\ n = 0 => ReadOut(r).base.val = InitialVal)
    /\ [][\A c \in Calls :
              (calls[c].kind = "reset" /\ calls'[c] # calls[c]) =>
                  /\ adapterReadCalls' = adapterReadCalls
                  /\ (CommitStepOf(c) /\ UsesAdapter) => adapterStore' = calls[c].nextState]_vars

\* a reset without middleware completed on a persistent store with an adapter
\* whose state was not the initial one and whose adapter held another value:
\* read() returns the initial state, the adapter holds it, and adapter.read
\* was invoked once, by the seed
C29_Witness ==
    \E c \in Calls :
        /\ calls[c].kind = "reset"
        /\ calls[c].pc = "done"
        /\ calls[c].alone
        /\ UsesAdapter
        /\ Len(configuration.middleware) = 0
        /\ calls[c].previousState.val # InitialVal
        /\ instances[calls[c].inst].initialized
        /\ ReadOut(1).base.val = InitialVal
        /\ adapterStore = calls[c].nextState
        /\ adapterReadCalls = 1

\* ------------------------------------------------------------------- C30
\* the state a top-level operation of kind k commits, without middleware, on
\* a record whose state is obj (a patch with the partial the batch steps use)
SeparateStep(k, obj) ==
    (CHOOSE x \in Candidates(1, k, obj) :
         /\ ~x.threw
         /\ k = "patch" => x.partial.has = {"tag"}).state

\* the state left by the first n steps of the script run as separate
\* top-level operations, one after the other, starting from obj
RECURSIVE SeparateFold(_, _, _)
SeparateFold(script, n, obj) ==
    IF n = 0 THEN obj ELSE SeparateStep(script[n], SeparateFold(script, n - 1, obj))

\* the batch of call c ran its callback to the end
BatchRan(c) ==
    /\ calls[c].kind = "batch"
    /\ calls[c].pc \notin {"idle", "resolve"}
    /\ calls[c].err \notin {"seed", "factory", "batchCallback"}

\* the scripts whose steps all run
Complete(script) == \A j \in 1..Len(script) : script[j] # "throw"

\* C30: each step of a batch acts on the state the previous step left: from
\* the state a batch finds in its record and for every script of steps, the
\* state the steps accumulate is the state the same steps leave when run as
\* separate top-level operations in the same order; the candidate of a batch
\* is that accumulated state, and without middleware it is what the batch
\* commits
C30_BatchAsSeparateOperations ==
    /\ \A c \in Calls :
           (/\ calls[c].kind = "batch"
            /\ calls[c].pc = "resolve"
            /\ calls[c].waits => persistentInstanceInitializing = "resolved") =>
               LET found == instances[ResolvedInstance(c)].state IN
               \A script \in Scripts :
                   Complete(script) =>
                       LET run == RunSteps(found, script, c, 1) IN
                       /\ ~run.threw
                       /\ run.steps = Len(script)
                       /\ run.state.val = SeparateFold(script, Len(script), found).val
    /\ \A c \in Calls :
           LET call == calls[c] IN
           BatchRan(c) =>
               /\ \E script \in Scripts :
                      /\ Complete(script)
                      /\ Len(script) = call.steps
                      /\ call.candidate = RunSteps(call.previousState, script, c, 1).state
               /\ (Len(configuration.middleware) = 0 /\ PastPipeline(c)) =>
                      call.nextState = call.candidate
               /\ (Len(configuration.middleware) = 0 /\ Committed(c) /\ SoleCall(c)) =>
                      instances[call.inst].state = call.candidate

\* a batch of an update and a patch without middleware has completed: the
\* second step acted on what the first had left
C30_Witness ==
    \E c \in Calls :
        /\ calls[c].kind = "batch"
        /\ calls[c].pc = "done"
        /\ calls[c].steps = 2
        /\ SoleCall(c)
        /\ Len(configuration.middleware) = 0
        /\ calls[c].previousState.val.tag = 0
        /\ instances[calls[c].inst].state.val =
               [count |-> calls[c].previousState.val.count + 1, tag |-> 1]

\* ------------------------------------------------------------------- C31
\* the callback that belongs to a kind of mutating method
CallbackNameOf(k) ==
    CASE k = "initialize" -> "onInitialize"
      [] k = "reset" -> "onReset"
      [] OTHER -> "onUpdate"

\* the step in which call d invokes a lifecycle callback
FireStep(d) == Len(calls'[d].fired) > Len(calls[d].fired)

\* C31: a mutating operation never fires more than one lifecycle callback, a
\* successful one has fired exactly one, the one of its kind (onInitialize for
\* initialize, onReset for reset, onUpdate for update, set, patch and batch),
\* and fires it after its commit; an operation issued after the earlier ones
\* were awaited fires its callback after theirs
C31_OneCallbackInOrder ==
    /\ [](\A c \in Calls :
              /\ Len(calls[c].fired) <= 1
              /\ calls[c].pc = "done" => Len(calls[c].fired) = 1
              /\ \A i \in 1..Len(calls[c].fired) :
                     /\ calls[c].fired[i].name = CallbackNameOf(calls[c].kind)
                     /\ Committed(c))
    /\ [][\A d \in Calls :
              (FireStep(d) /\ calls[d].alone) =>
                  \A c \in 1..(d - 1) :
                      /\ calls[c].pc \in {"done", "failed"}
                      /\ calls[c].pc = "done" => Len(calls[c].fired) = 1]_vars

\* an initialize and then a reset, each awaited, have fired onInitialize and
\* then onReset
C31_Witness ==
    /\ calls[1].kind = "initialize" /\ calls[1].pc = "done"
    /\ calls[2].kind = "reset" /\ calls[2].pc = "done" /\ calls[2].alone
    /\ calls[1].fired[1].name = "onInitialize"
    /\ calls[2].fired[1].name = "onReset"

\* ------------------------------------------------------------------- C32
\* C32: a mutating operation completes only from the state in which its
\* lifecycle callback was pending, and invokes that callback only from the
\* state in which its adapter write was pending: when it has completed, its
\* write (persistent mode with an adapter) and its callback have been invoked
\* and have both returned
C32_CompletesAfterWriteAndCallback ==
    /\ [](\A c \in Calls :
              calls[c].pc = "done" =>
                  /\ calls[c].fired = <<CallbackOf(calls[c])>>
                  /\ calls[c].wrote = IF UsesAdapter THEN <<calls[c].nextState>> ELSE <<>>)
    /\ [][\A c \in Calls :
              /\ (calls[c].pc # "done" /\ calls'[c].pc = "done") =>
                     /\ calls[c].pc = "callback"
                     /\ calls[c].fired = <<CallbackOf(calls[c])>>
              /\ FireStep(c) =>
                     /\ calls[c].pc = "write"
                     /\ calls'[c].pc = "callback"
                     /\ UsesAdapter => (calls[c].wrote = <<calls[c].nextState>>)]_vars

\* a set completed on a persistent store with an adapter whose write and
\* whose callback can fail: both were awaited and the adapter holds the state
C32_Witness ==
    \E c \in Calls :
        /\ calls[c].kind = "set"
        /\ calls[c].pc = "done"
        /\ SoleCall(c)
        /\ UsesAdapter
        /\ configuration.faulty
        /\ Len(calls[c].wrote) = 1
        /\ Len(calls[c].fired) = 1
        /\ adapterStore = calls[c].nextState

\* ------------------------------------------------------------------- C33
\* the step in which the reducer of call c's update throws
ReducerThrowStep(c) == calls[c].err # "reducer" /\ calls'[c].err = "reducer"

\* C33: when the reducer passed to update throws, the update fails with that
\* exception and nothing else happens: no record changes (state, initialized
\* and derived cache are as before), the adapter holds what it held, and the
\* call has run no middleware stage, made no adapter write and invoked no
\* callback, then and ever after
C33_ReducerThrowChangesNothing ==
    /\ [](\A c \in Calls :
              calls[c].err = "reducer" =>
                  /\ calls[c].kind = "update"
                  /\ calls[c].pc = "failed"
                  /\ calls[c].mwLog = <<>>
                  /\ calls[c].wrote = <<>>
                  /\ calls[c].fired = <<>>)
    /\ [][\A c \in Calls :
              ReducerThrowStep(c) =>
                  /\ calls[c].pc = "resolve"
                  /\ instances' = instances
                  /\ adapterStore' = adapterStore
                  /\ persistentInstance' = persistentInstance
                  /\ requestInstances' = requestInstances]_vars
    /\ [][\A c \in Calls : calls[c].err = "reducer" => calls'[c] = calls[c]]_vars

\* the reducer of an update threw on a store with middleware, adapter and a
\* warm derived cache: the record is as the earlier operation left it
C33_Witness ==
    \E c \in Calls :
        /\ calls[c].err = "reducer"
        /\ calls[c].alone
        /\ Len(configuration.middleware) > 0
        /\ UsesAdapter
        /\ calls[1].pc = "done"
        /\ instances[calls[c].inst].state = calls[1].nextState
        /\ adapterStore = calls[1].nextState

\* the same on a store with derive: the cache read() had filled is kept
C33_CacheWitness ==
    \E c \in Calls :
        /\ calls[c].err = "reducer"
        /\ instances[calls[c].inst].cachedDerivedState # NullDerived
        /\ instances[calls[c].inst].lastDerivedBaseState = instances[calls[c].inst].state

\* ------------------------------------------------------------------- C34
\* the record read() in request r resolves to, 0 when there is none yet
ScopeRecord(r) ==
    IF configuration.storage = "request" THEN requestInstances[r] ELSE persistentInstance

\* no operation has changed the state of record e since it was created
Untouched(e) ==
    \A c \in Calls :
        (calls[c].pc \notin {"idle", "resolve"} /\ calls[c].inst = e) =>
            /\ ~Committed(c)
            /\ calls[c].kind = "batch" => calls[c].steps = 0

\* C34 as stated, its last part: read() of a record that is not initialized
\* returns the seeded initial value
C34_UninitializedReadsInitial ==
    \A r \in RequestsOf :
        (ScopeRecord(r) # 0 /\ ~instances[ScopeRecord(r)].initialized) =>
            ReadOut(r).base.val = InitialVal

\* C34 amended: read() and select() leave every record's state and
\* initialized flag as they are, whether the record is initialized or not, and
\* change nothing but the derived cache of the record they read; neither
\* raises for derive's sake; select returns the selector applied to what
\* read() returns; read() of a record that is not initialized returns the
\* record's current state, which is the seeded initial value as long as no
\* operation has changed it
C34_ReadChangesOnlyCache ==
    \A r \in RequestsOf :
        LET e == ScopeRecord(r)
            out == ReadOut(r)
        IN /\ ~out.threw
           /\ ~SelectOut(r).threw
           /\ SelectOut(r).selected = <<out.base.val.count, out.derived.doubled>>
           /\ e # 0 =>
                  /\ out.id = e
                  /\ Len(out.heap) = Len(instances)
                  /\ \A i \in 1..Len(instances) :
                         /\ out.heap[i].state = instances[i].state
                         /\ out.heap[i].initialized = instances[i].initialized
                         /\ i # e => out.heap[i] = instances[i]
                  /\ out.base = instances[e].state
                  /\ (~instances[e].initialized /\ Untouched(e)) => out.base.val = InitialVal
           /\ e = 0 =>
                  /\ \A i \in 1..Len(instances) : out.heap[i] = instances[i]
                  /\ out.base = GetInitialState(out.base.ref)
                  /\ ~out.heap[out.id].initialized

\* a record that is not initialized holds a state an update committed with a
\* derive that succeeds on it: read() returns that state and fills the cache
C34_Witness ==
    \E c \in Calls :
        /\ calls[c].kind = "update" /\ calls[c].pc = "done" /\ SoleCall(c)
        /\ ~instances[calls[c].inst].initialized
        /\ ReadOut(calls[c].req).invoked
        /\ ReadOut(calls[c].req).base.val # InitialVal
        /\ ReadOut(calls[c].req).heap[calls[c].inst].cachedDerivedState # NullDerived
        /\ instances[calls[c].inst].cachedDerivedState = NullDerived

\* ------------------------------------------------------------------- C35
\* the initialized flag read through the store in request r: that of the
\* record the scope resolves to, FALSE while there is none
StoreInitialized(r) ==
    IF ScopeRecord(r) = 0 THEN FALSE ELSE instances[ScopeRecord(r)].initialized

\* C35: once the store's initialized flag has been true it is true in every
\* later state, whatever operations and interleavings follow
C35_InitializedMonotonic ==
    [][\A r \in RequestsOf : StoreInitialized(r) => StoreInitialized(r)']_vars

\* ------------------------------------------------------------------- C36
\* the two cache fields of a record agree
CacheFieldsAgree(inst) ==
    /\ inst.lastDerivedBaseState = NullObj <=> inst.cachedDerivedState = NullDerived
    /\ inst.cachedDerivedState # NullDerived =>
           /\ ~DeriveThrows(configuration, inst.lastDerivedBaseState.val)
           /\ inst.cachedDerivedState = Derive(inst.lastDerivedBaseState.val)

\* C36: in every reachable state, and in the state any read() would leave,
\* lastDerivedBaseState and cachedDerivedState of every record are both empty
\* or both set, and when set cachedDerivedState is derive(lastDerivedBaseState)
C36_CacheFieldsAgree ==
    /\ \A i \in 1..Len(instances) : CacheFieldsAgree(instances[i])
    /\ \A r \in RequestsOf :
           \A i \in 1..Len(ReadOut(r).heap) : CacheFieldsAgree(ReadOut(r).heap[i])

\* a record whose cache was filled, emptied by a commit and filled again for
\* the committed state
C36_Witness ==
    \E c \in Calls :
        /\ calls[c].pc = "done"
        /\ calls[c].nextState # calls[c].previousState
        /\ instances[calls[c].inst].lastDerivedBaseState = calls[c].nextState
        /\ instances[calls[c].inst].cachedDerivedState = Derive(calls[c].nextState.val)

C37_SeparateWitness ==
    /\ observed.mode = "separate"
    /\ observed.ops = 3
    /\ observed.derives = 3
    /\ ~ReadOut(1).invoked

Quiescent == \A c \in Calls : calls[c].pc \in {"idle", "done"}

IssuedAfterFailedSeed(c) ==
    /\ calls[c].pc = "idle"
    /\ calls'[c].pc # "idle"
    /\ configuration.storage = "persistent"
    /\ persistentInstance = 0
    /\ persistentInstanceInitializing \in {"rejected", "threw"}

\* C39: a failed persistent seed does not poison the store: a mutating
\* operation issued after adapter.read rejected or the initial-state factory
\* threw during the seed starts a new seed attempt and does not wait on the
\* failed one
C39_FailedSeedRetried ==
    [][\A c \in Calls :
           IssuedAfterFailedSeed(c) =>
               /\ persistentInstanceInitializing' = "pending"
               /\ ~calls'[c].waits]_vars

Settled(c) == calls[c].pc \in {"done", "failed"}

\* the operation's own next step can be taken
OwnStepEnabled(c) ==
    ENABLED (MwStep(c) \/ Commit(c) \/ WriteDone(c) \/ CallbackDone(c))

\* a continuation of getCacheInstanceAsync() is ready to run: this call's, or
\* that of a call queued before it
ResumeEnabled(c) == \E d \in 1..c : ENABLED AfterResolve(d)

\* the operation waits for nothing but the seed: past its resolution its own
\* step is enabled whatever the other operations have or have not committed
WaitsOnlyOnSeed(c) ==
    /\ calls[c].pc \in {"mw", "commit", "write", "callback"} => OwnStepEnabled(c)
    /\ calls[c].pc = "resolve" /\ persistentInstanceInitializing # "pending"
           => ResumeEnabled(c)

\* C40: when every middleware stage, adapter call and lifecycle callback
\* settles, every mutating operation that was issued eventually resolves or
\* rejects, an operation parked on another caller's seed included; an operation
\* waits only on the seed, never on another operation's commit
C40_EveryOperationCompletes ==
    /\ \A c \in Calls : (calls[c].pc # "idle") ~> Settled(c)
    /\ [](\A c \in Calls : WaitsOnlyOnSeed(c))

\* an operation that waited on the seed started by another caller has
\* completed while that caller's operation is still in flight
C40_Witness ==
    /\ calls[2].waits
    /\ calls[2].pc = "done"
    /\ calls[1].pc \in {"mw", "commit", "write", "callback"}

====
